---- MODULE Spec2Model ----
(***************************************************************************)
(* Model of the nasdaq data fetcher of stocks-app (app/data_fetcher.py)    *)
(* and of the relational store it writes to (app/app/models.py).           *)
(*                                                                         *)
(* The store is PostgreSQL (app/app/config.py) at its default isolation    *)
(* level READ COMMITTED, reached through one SQLAlchemy session per        *)
(* thread (Fetcher.session).  What the model keeps of them:                *)
(*   - an INSERT draws its id from the table's sequence, whether or not    *)
(*     the row is kept afterwards;                                         *)
(*   - an INSERT whose natural key equals that of a row another            *)
(*     transaction has inserted and not yet committed waits for that       *)
(*     transaction to end; against a committed row it raises               *)
(*     IntegrityError;                                                     *)
(*   - a SELECT sees committed rows only;                                  *)
(*   - the UPDATE a session flushes for a loaded object sets the           *)
(*     attributes whose new value differs from the loaded one, nothing     *)
(*     else, and it is applied to the row as committed at that moment.     *)
(***************************************************************************)
EXTENDS Integers, Sequences, FiniteSets, TLC

\* ------------------------------------------------------------------ bounds

\* Worker threads of the pool are 1..max_workers, max_workers <= MaxWorkers.
MaxWorkers == 2
\* Upsert calls issued by the driver of SpecUpsert.
MaxCalls == 2

\* Tickers in the list handed to fetch, trade pages per ticker, and tasks of
\* one run (the runs modelled are those with T * (1 + P) <= MaxTasks).
MaxTickers == 3
MaxPages == 2
MaxTasks == 3
\* Rows of a parsed table, and the page count a trades page announces.
MaxRows == 1
MaxPageCount == 2
\* Ticker lists and pages of the runs of SpecSubmit.
MaxSubmitTickers == 3
MaxSubmitPages == 2
\* Rows of a table of the runs of SpecPage.
MaxTableRows == 2
\* Runs of the script in SpecRerun.
MaxRuns == 2

Workers == 1..MaxWorkers

\* ------------------------------------------------------------- the schema

TickerNames == {"AAPL", "GOOG"}
InsiderNames == {"COOK"}
Relations == {"Officer", "Director"}
Dates == {1}
Prices == {1, 2}

\* Columns of Quote besides its id and its natural key (stock_id, date).
QuoteFields == {"open_price", "close_price", "high_price", "low_price", "volume"}

\* Models with a unique natural key (Stock.ticker, Insider.name,
\* Quote.(stock_id, date)); Trade has none.
UniqueModels == {"Stock", "Insider", "Quote"}
Models == UniqueModels \cup {"Trade"}

\* Sample quote payloads: every price field 1, every price field 2, and the
\* two payloads that differ from those in open_price only.
QuotePayloads ==
    {[f \in QuoteFields |-> IF f \in S THEN 2 ELSE 1] :
        S \in {{}, {"open_price"}, QuoteFields \ {"open_price"}, QuoteFields}}

NoVals == [f \in {} |-> 0]

\* models.OwnerType: the names Trade.owner_type accepts.
OwnerType == {"direct", "indirect"}

SeqsUpTo(S, n) == UNION {[1..k -> S] : k \in 0..n}

\* An optional value: <<>> for None, <<v>> for the value v.
None == <<>>
Some(v) == <<v>>

\* ------------------------------------------------------ the pages' cells

\* The text of a table cell, as parse_table gives it, and what the
\* conversions of parse_history and parse_trades make of it.  A conversion
\* gives Some(value), or None when it raises ValueError.

\* date_parser.parse(text).date()
DateText == "01/02/2019"
ParseDate(text) == IF text = DateText THEN Some(1) ELSE None

\* text.replace(',', '')
StripCommas(text) == IF text = "0,2" THEN "02" ELSE text

\* float(text)
Float(text) ==
    CASE text = "1" -> Some(1)
      [] text \in {"2", "02"} -> Some(2)
      [] OTHER -> None

\* int(text), for the page number of the last-page link.
ToInt(text) ==
    LET ns == {n \in 0..(MaxPageCount + 1) : ToString(n) = text} IN
    IF ns = {} THEN None ELSE Some(CHOOSE n \in ns : TRUE)

\* Rows of the history table (a row is the list of its cells' texts): rows
\* of six cells that convert, with and without thousands separators, and a
\* row of two cells, one with no date and one with a cell that is no number.
GoodHistoryRows ==
    {<<DateText, p, p, p, p, p>> : p \in {"1", "2", "0,2"}}
BadHistoryRows ==
    {<<DateText, "1">>,
     <<"n/a", "1", "1", "1", "1", "1">>,
     <<DateText, "1", "1", "n/a", "1", "1">>}
RawHistoryRows == GoodHistoryRows \cup BadHistoryRows

\* Rows of the insider-trades table: rows of eight cells that convert, the
\* last-price cell empty or not, and a row of seven cells, one with no date,
\* one whose number of shares is no number and one whose last price has a
\* thousands separator.
GoodTradeRows ==
    {<<n, r, DateText, "Sell", o, "1", lp, "1">> :
        n \in InsiderNames, r \in Relations, o \in {"direct", "other"},
        lp \in {"", "1"}}
BadTradeRows ==
    {<<"COOK", "Officer", DateText, "Sell", "direct", "1", "1">>,
     <<"COOK", "Officer", "n/a", "Sell", "direct", "1", "1", "1">>,
     <<"COOK", "Officer", DateText, "Sell", "direct", "n/a", "1", "1">>,
     <<"COOK", "Officer", DateText, "Sell", "direct", "1", "0,2", "1">>}
RawTradeRows == GoodTradeRows \cup BadTradeRows

\* A page of the site as the parser meets it.  ok: the GET succeeded
\* (raise_for_status passed); div, table, tbody: the container div, the
\* table in it and the body of that table are there; rows: the rows of the
\* table.  A page without the element that holds the rows has none.
HistoryPages(n) ==
    {d \in [ok : BOOLEAN, div : BOOLEAN, table : BOOLEAN, tbody : BOOLEAN,
            rows : SeqsUpTo(RawHistoryRows, n)] :
        /\ d.div => d.ok
        /\ d.table => d.div
        /\ d.tbody => d.table
        /\ d.rows # <<>> => d.tbody}

\* The page parameter of the last-page link: absent from its href, no
\* integer, or a page number.
PageTexts == {None, Some("x")} \cup {Some(ToString(n)) : n \in 1..MaxPageCount}

\* link: the last-page link is there; href_page: its page parameter.
TradesPages(n) ==
    {d \in [ok : BOOLEAN, link : BOOLEAN, href_page : PageTexts,
            div : BOOLEAN, table : BOOLEAN,
            rows : SeqsUpTo(RawTradeRows, n)] :
        /\ (d.link \/ d.div) => d.ok
        /\ d.href_page # None => d.link
        /\ d.table => d.div
        /\ d.rows # <<>> => d.table}

HistoryDoms == HistoryPages(MaxRows)
TradesDoms == TradesPages(MaxRows)

VARIABLES
    store,      \* rows: [model, id, key, vals, owner]; owner 0 = committed,
                \* owner w = inserted by worker w's open transaction
    next_id,    \* model -> next value of the table's id sequence
    pc,         \* worker -> position of the thread
    frame,      \* worker -> the running upsert call (or NoFrame)
    task,       \* worker -> the running task's locals (or NoTask)
    args,       \* [tickers, max_workers, max_trades_pages] of the run
    mainpc,     \* position of the thread that called Fetcher.fetch, and
                \* what the earlier runs left in the store
    futures,    \* the list of futures fetch has built
    work_queue, \* the executor's queue of work items not yet taken
    log,        \* the entries fetch has logged, one per future it has seen
    hist,       \* the upsert calls the driver has issued, in start order
    site        \* the pages the site serves, when they are fixed for the run

dbvars == <<store, next_id>>
poolvars == <<args, mainpc, futures, work_queue, log>>
vars == <<store, next_id, pc, frame, task, args, mainpc, futures, work_queue,
          log, hist, site>>

NoFrame == [model |-> "", key |-> <<>>, vals |-> NoVals, instance |-> 0,
            changes |-> {}, path |-> ""]

\* site when the pages are not fixed: a request may be answered with any
\* page.
AnySite == [fixed |-> FALSE, history |-> <<>>, trades |-> <<>>]

\* fn: "fetch_history", "fetch_trades", or "driver" for a bare upsert call
\* (then future is the call's index in hist).
\* input: what the task's page gave (see ParseHistory, ParseTrades);
\* wrote: the records the task's store operations have committed so far;
\* stored: the number of parsed rows whose store step has ended.
NoInput == [error |-> "", rows |-> <<>>, beyond |-> FALSE]
NoTask == [fn |-> "", future |-> 0, items |-> <<>>, stock_id |-> 0,
           insider_id |-> 0, count |-> 0, input |-> NoInput, wrote |-> {},
           stored |-> 0]

\* The outcome of a finished future: a result message or an exception.  ticker
\* and page are what the text of the message or of the exception names
\* ("" and 0 when it names none).
NoOutcome == [kind |-> "", type |-> "", count |-> 0, ticker |-> "", page |-> 0]

\* ---------------------------------------------------------------- Parser

Raised(error) == [error |-> error, rows |-> <<>>, beyond |-> FALSE]

\* parse_history, lines 98-113, for one row: None when the row is skipped
\* (not six cells, or a ValueError of a conversion), else the item.
HistoryItem(row) ==
    IF Len(row) # 6
    THEN None
    ELSE LET date == ParseDate(row[1])
             num == [k \in 2..6 |-> Float(StripCommas(row[k]))] IN
         IF date = None \/ \E k \in 2..6 : num[k] = None
         THEN None
         ELSE Some([date |-> date[1],
                    vals |-> [open_price |-> num[2][1],
                              high_price |-> num[3][1],
                              low_price |-> num[4][1],
                              close_price |-> num[5][1],
                              volume |-> num[6][1]]])

\* parse_history, lines 95-115: the loop over the rows of the table.
RECURSIVE HistoryItems(_)
HistoryItems(table) ==
    IF table = <<>>
    THEN <<>>
    ELSE HistoryItem(Head(table)) \o HistoryItems(Tail(table))

\* Mutant of ParseHistory: the conversions are outside any try block, so the
\* ValueError of a row leaves parse_history.
ParseHistoryNoTry(dom) ==
    CASE ~dom.ok -> Raised("HTTPError")
      [] ~dom.div \/ ~dom.table -> Raised("ParsingError")
      [] ~dom.tbody -> Raised("AttributeError")
      [] \E k \in 1..Len(dom.rows) :
            Len(dom.rows[k]) = 6 /\ HistoryItem(dom.rows[k]) = None ->
            Raised("ValueError")
      [] OTHER -> [error |-> "", rows |-> HistoryItems(dom.rows),
                   beyond |-> FALSE]

\* Parser.parse_history of a page: HTTPError from parse_page (line 90),
\* ParsingError from find_tag when the div or its table is missing (91-92);
\* when the table has no tbody, find('tbody') gives None and parse_table
\* raises AttributeError at its find_all (line 79).
ParseHistory(dom) ==
    CASE ~dom.ok -> Raised("HTTPError")
      [] ~dom.div \/ ~dom.table -> Raised("ParsingError")
      [] ~dom.tbody -> Raised("AttributeError")
      [] OTHER -> [error |-> "", rows |-> HistoryItems(dom.rows),
                   beyond |-> FALSE]

\* Mutant of TradeItem: an empty last-price cell is read as zero.
TradeItemZero(row) ==
    IF Len(row) # 8
    THEN None
    ELSE LET last_date == ParseDate(row[3])
             shares_traded == Float(StripCommas(row[6]))
             last_price == IF row[7] # "" THEN Float(row[7]) ELSE Some(0)
             shares_hold == Float(StripCommas(row[8])) IN
         IF \/ last_date = None
            \/ shares_traded = None
            \/ row[7] # "" /\ last_price = None
            \/ shares_hold = None
         THEN None
         ELSE Some([insider |-> row[1],
                    relation |-> row[2],
                    last_date |-> last_date[1],
                    transaction_type |-> row[4],
                    owner_type |-> row[5],
                    shares_traded |-> shares_traded[1],
                    last_price |-> last_price,
                    shares_hold |-> shares_hold[1]])

\* parse_trades, lines 138-155, for one row.  The last price is converted
\* only when its cell is not empty, and without replace.
TradeItem(row) ==
    IF Len(row) # 8
    THEN None
    ELSE LET last_date == ParseDate(row[3])
             shares_traded == Float(StripCommas(row[6]))
             last_price == IF row[7] # "" THEN Float(row[7]) ELSE None
             shares_hold == Float(StripCommas(row[8])) IN
         IF \/ last_date = None
            \/ shares_traded = None
            \/ row[7] # "" /\ last_price = None
            \/ shares_hold = None
         THEN None
         ELSE Some([insider |-> row[1],
                    relation |-> row[2],
                    last_date |-> last_date[1],
                    transaction_type |-> row[4],
                    owner_type |-> row[5],
                    shares_traded |-> shares_traded[1],
                    last_price |-> last_price,
                    shares_hold |-> shares_hold[1]])

\* parse_trades, lines 137-155: the loop over the rows of the table.
RECURSIVE TradeItems(_)
TradeItems(table) ==
    IF table = <<>>
    THEN <<>>
    ELSE TradeItem(Head(table)) \o TradeItems(Tail(table))

\* Parser.parse_trades_page_count (lines 168-171): find_tag raises
\* ParsingError when the page has no last-page link; the page parameter of
\* the link's href defaults to '1' when it is absent; int() raises
\* ValueError when it is no integer.
ParseTradesPageCount(dom) ==
    IF ~dom.link
    THEN [error |-> "ParsingError", count |-> 0]
    ELSE LET text == IF dom.href_page = None THEN "1" ELSE dom.href_page[1]
             n == ToInt(text) IN
         IF n = None
         THEN [error |-> "ValueError", count |-> 0]
         ELSE [error |-> "", count |-> n[1]]

\* Mutant of ParseTrades: the table is parsed whatever the page count says.
ParseTradesAnyPage(dom, page) ==
    LET page_count == ParseTradesPageCount(dom) IN
    CASE ~dom.ok -> Raised("HTTPError")
      [] page_count.error # "" -> Raised(page_count.error)
      [] ~dom.div \/ ~dom.table -> Raised("ParsingError")
      [] OTHER -> [error |-> "", rows |-> TradeItems(dom.rows),
                   beyond |-> page > page_count.count]

\* Parser.parse_trades of a page requested as number `page`: the page count
\* is read first (line 128); the table is looked for only when
\* page <= page_count (line 131), and a page beyond the count gives no rows.
ParseTrades(dom, page) ==
    LET page_count == ParseTradesPageCount(dom) IN
    CASE ~dom.ok -> Raised("HTTPError")
      [] page_count.error # "" -> Raised(page_count.error)
      [] page > page_count.count ->
            [error |-> "", rows |-> <<>>, beyond |-> TRUE]
      [] ~dom.div \/ ~dom.table -> Raised("ParsingError")
      [] OTHER -> [error |-> "", rows |-> TradeItems(dom.rows),
                   beyond |-> FALSE]

\* ------------------------------------------------------------- the store

Committed == {r \in store : r.owner = 0}

\* Committed rows of a model with a natural key: what
\* query(model).filter_by(**key_fields) selects.
Lookup(model, key) == {r \in Committed : r.model = model /\ r.key = key}

\* Mutant of PendingElsewhere: the natural key has no unique index, so an
\* INSERT never waits for another transaction.
PendingNowhere(w, model, key) == {r \in store : FALSE}

\* Rows some other open transaction has inserted under the same key.
PendingElsewhere(w, model, key) ==
    {r \in store : r.model = model /\ r.key = key /\ r.owner \notin {0, w}}

\* Mutant of Rollback: one session shared by all threads, so a rollback
\* discards what every open transaction has inserted.
RollbackShared(w) == {r \in store : r.owner = 0}

\* Mutant of Rollback: the task is one transaction, so a rollback also
\* discards the records its earlier store operations have written.
RollbackTask(w) ==
    {r \in store :
        /\ r.owner # w
        /\ ~\E x \in task[w].wrote : x.model = r.model /\ x.id = r.id}

\* session.rollback(): the rows the worker's open transaction inserted go.
Rollback(w) == {r \in store : r.owner # w}

\* Mutant of CommitRows: one session shared by all threads, so a commit
\* makes visible what every open transaction has inserted.
CommitRowsShared(w, rows) == {[r EXCEPT !.owner = 0] : r \in rows}

\* COMMIT: the rows the worker's open transaction inserted become visible.
CommitRows(w, rows) ==
    {IF r.owner = w THEN [r EXCEPT !.owner = 0] ELSE r : r \in rows}

\* The UPDATE a flush emits for the loaded object f.instance: it sets the
\* attributes in f.changes and leaves the row's other columns as they are.
ApplyUpdate(rows, f) ==
    {IF r.model = f.model /\ r.id = f.instance /\ r.owner = 0
        THEN [r EXCEPT !.vals = [k \in DOMAIN r.vals |->
                  IF k \in f.changes THEN f.vals[k] ELSE r.vals[k]]]
        ELSE r : r \in rows}

\* Quote.stock_id, Trade.stock_id and Trade.insider_id are foreign keys.
ForeignKeysHold(model, key) ==
    CASE model = "Quote" ->
            \E s \in Committed : s.model = "Stock" /\ s.id = key[1]
      [] model = "Trade" ->
            /\ \E s \in Committed : s.model = "Stock" /\ s.id = key[1]
            /\ \E i \in Committed : i.model = "Insider" /\ i.id = key[2]
      [] OTHER -> TRUE

\* ------------------------------------------------------------ Fetcher.upsert

\* upsert, lines 280-281: the call begins; its first store operation is the
\* INSERT of UpsertInsert.
UpsertFrame(model, key, vals) ==
    [model |-> model, key |-> key, vals |-> vals, instance |-> 0,
     changes |-> {}, path |-> ""]

\* A task ends with locals t: Future.set_result / Future.set_exception, and
\* the worker thread goes back to the queue.
SetOutcome(w, t, outcome) ==
    /\ futures' = [futures EXCEPT ![t.future] =
                      [@ EXCEPT !.state = "FINISHED", !.outcome = outcome,
                                !.input = t.input, !.wrote = t.wrote,
                                !.stored = t.stored]]
    /\ pc' = [pc EXCEPT ![w] = "idle"]
    /\ frame' = [frame EXCEPT ![w] = NoFrame]
    /\ task' = [task EXCEPT ![w] = NoTask]
    /\ hist' = hist

\* The return statement of fetch_history (line 242) or fetch_trades (268):
\* the message gives the number of parsed items, the ticker and, for
\* fetch_trades, the page.
TaskReturn(w, t) ==
    LET fu == futures[t.future] IN
    SetOutcome(w, t, [kind |-> "result", type |-> "", count |-> t.count,
                      ticker |-> fu.ticker, page |-> fu.page])

\* An exception leaves the task through its handler (lines 238-240,
\* 264-266), which has rolled the session back: see Except.  The text of
\* these exceptions names neither ticker nor page.
TaskRaise(w, type) ==
    IF task[w].fn = "driver"
    THEN /\ hist' = [hist EXCEPT ![task[w].future].ret = -1]
         /\ pc' = [pc EXCEPT ![w] = "idle"]
         /\ frame' = [frame EXCEPT ![w] = NoFrame]
         /\ task' = [task EXCEPT ![w] = NoTask]
         /\ futures' = futures
    ELSE SetOutcome(w, task[w],
                    [kind |-> "exception", type |-> type, count |-> 0,
                     ticker |-> "", page |-> 0])

\* The store after the handler of the running task: session.rollback().
Except(w) == IF task[w].fn = "driver" THEN store ELSE Rollback(w)

\* The loop over the parsed rows reaches its next row, or ends; t is the
\* task's locals, t.items the rows not yet stored.
\* fetch_history (234-236): upsert the Quote of the next history item.
\* fetch_trades (257-259): upsert the Insider of the next trade.
NextItem(w, t) ==
    IF t.items = <<>>
    THEN TaskReturn(w, t)
    ELSE LET item == Head(t.items) IN
         /\ pc' = [pc EXCEPT ![w] = "insert"]
         /\ frame' = [frame EXCEPT ![w] =
               IF t.fn = "fetch_history"
               THEN UpsertFrame("Quote", <<t.stock_id, item.date>>, item.vals)
               ELSE UpsertFrame("Insider", item.insider,
                                [relation |-> item.relation])]
         /\ task' = [task EXCEPT ![w] =
               IF t.fn = "fetch_history"
               THEN [t EXCEPT !.items = Tail(t.items)] ELSE t]
         /\ UNCHANGED <<futures, hist>>

\* upsert returns the record `id` (line 296) and its caller goes on to its
\* next store operation.
Return(w, id) ==
    LET f == frame[w]
        t == [task[w] EXCEPT !.wrote = @ \cup
                  {[model |-> f.model, id |-> id, path |-> f.path]}] IN
    CASE t.fn = "driver" ->
            /\ hist' = [hist EXCEPT ![t.future].ret = id,
                                    ![t.future].path = f.path]
            /\ pc' = [pc EXCEPT ![w] = "idle"]
            /\ frame' = [frame EXCEPT ![w] = NoFrame]
            /\ task' = [task EXCEPT ![w] = NoTask]
            /\ futures' = futures
      [] f.model = "Stock" ->
            NextItem(w, [t EXCEPT !.stock_id = id])
      [] f.model = "Quote" ->
            NextItem(w, [t EXCEPT !.stored = @ + 1])
      [] OTHER ->
            /\ pc' = [pc EXCEPT ![w] = "add_trade"]
            /\ frame' = [frame EXCEPT ![w] = NoFrame]
            /\ task' = [task EXCEPT ![w] = [t EXCEPT !.insider_id = id]]
            /\ UNCHANGED <<futures, hist>>

\* Mutant of UpsertInsert: the INSERT never conflicts, as if the natural key
\* had no unique constraint.
UpsertInsertNoConflict(w) ==
    LET f == frame[w]
        id == next_id[f.model] IN
    /\ pc[w] = "insert"
    /\ next_id' = [next_id EXCEPT ![f.model] = id + 1]
    /\ store' = store \cup {[model |-> f.model, id |-> id, key |-> f.key,
                              vals |-> f.vals, owner |-> w]}
    /\ pc' = [pc EXCEPT ![w] = "commit"]
    /\ frame' = [frame EXCEPT ![w].path = "insert", ![w].instance = id]
    /\ UNCHANGED <<site, task, hist, poolvars>>

\* Mutant of UpsertInsert: the IntegrityError of the INSERT is not caught
\* and leaves upsert.
UpsertInsertUncaught(w) ==
    LET f == frame[w]
        id == next_id[f.model] IN
    /\ pc[w] = "insert"
    /\ PendingElsewhere(w, f.model, f.key) = {}
    /\ next_id' = [next_id EXCEPT ![f.model] = id + 1]
    /\ IF Lookup(f.model, f.key) # {} \/ ~ForeignKeysHold(f.model, f.key)
       THEN /\ store' = Except(w)
            /\ TaskRaise(w, "IntegrityError")
       ELSE /\ store' = store \cup {[model |-> f.model, id |-> id,
                                      key |-> f.key, vals |-> f.vals,
                                      owner |-> w]}
            /\ pc' = [pc EXCEPT ![w] = "commit"]
            /\ frame' = [frame EXCEPT ![w].path = "insert",
                                      ![w].instance = id]
            /\ UNCHANGED <<task, hist, futures>>
    /\ UNCHANGED <<site, args, mainpc, work_queue, log>>

\* Mutant of UpsertInsert: the INSERT waits as long as any other row of the
\* same natural key exists, committed or not, so a duplicate of a committed
\* row is never reported.
UpsertInsertWaitsForever(w) ==
    LET f == frame[w]
        id == next_id[f.model] IN
    /\ pc[w] = "insert"
    /\ PendingElsewhere(w, f.model, f.key) = {}
    /\ Lookup(f.model, f.key) = {}
    /\ next_id' = [next_id EXCEPT ![f.model] = id + 1]
    /\ IF ~ForeignKeysHold(f.model, f.key)
       THEN /\ store' = Rollback(w)
            /\ pc' = [pc EXCEPT ![w] = "query"]
            /\ frame' = [frame EXCEPT ![w].path = "update"]
       ELSE /\ store' = store \cup {[model |-> f.model, id |-> id,
                                      key |-> f.key, vals |-> f.vals,
                                      owner |-> w]}
            /\ pc' = [pc EXCEPT ![w] = "commit"]
            /\ frame' = [frame EXCEPT ![w].path = "insert",
                                      ![w].instance = id]
    /\ UNCHANGED <<site, task, hist, poolvars>>

\* upsert, lines 283-288: session.add(instance); session.flush().  The
\* INSERT waits while another transaction holds an uncommitted row of the
\* same natural key.  On IntegrityError the session is rolled back.
UpsertInsert(w) ==
    LET f == frame[w]
        id == next_id[f.model] IN
    /\ pc[w] = "insert"
    /\ PendingElsewhere(w, f.model, f.key) = {}
    /\ next_id' = [next_id EXCEPT ![f.model] = id + 1]
    /\ IF Lookup(f.model, f.key) # {} \/ ~ForeignKeysHold(f.model, f.key)
       THEN /\ store' = Rollback(w)
            /\ pc' = [pc EXCEPT ![w] = "query"]
            /\ frame' = [frame EXCEPT ![w].path = "update"]
       ELSE /\ store' = store \cup {[model |-> f.model, id |-> id,
                                      key |-> f.key, vals |-> f.vals,
                                      owner |-> w]}
            /\ pc' = [pc EXCEPT ![w] = "commit"]
            /\ frame' = [frame EXCEPT ![w].path = "insert",
                                      ![w].instance = id]
    /\ UNCHANGED <<site, task, hist, poolvars>>

\* Mutant of UpsertQuery: the row is looked up but the setattr loop is
\* missing, so the conflict path writes nothing.
UpsertQueryNoSetattr(w) ==
    LET f == frame[w]
        found == Lookup(f.model, f.key) IN
    /\ pc[w] = "query"
    /\ found # {}
    /\ store' = store
    /\ pc' = [pc EXCEPT ![w] = "commit"]
    /\ frame' = [frame EXCEPT ![w].instance = (CHOOSE x \in found : TRUE).id]
    /\ UNCHANGED <<site, task, futures, hist, next_id, args, mainpc,
                   work_queue, log>>

\* upsert, lines 289-292: query(model).filter_by(**key_fields).first(), then
\* setattr for every item of data.  The key fields of data equal those of
\* the row found, so only non-key attributes can change.  When no row is
\* found, instance is None and setattr raises AttributeError.
UpsertQuery(w) ==
    LET f == frame[w]
        found == Lookup(f.model, f.key) IN
    /\ pc[w] = "query"
    /\ IF found = {}
       THEN /\ store' = Except(w)
            /\ TaskRaise(w, "AttributeError")
       ELSE LET r == CHOOSE x \in found : TRUE IN
            /\ store' = store
            /\ pc' = [pc EXCEPT ![w] = "commit"]
            /\ frame' = [frame EXCEPT
                  ![w].instance = r.id,
                  ![w].changes = {k \in DOMAIN f.vals : f.vals[k] # r.vals[k]}]
            /\ UNCHANGED <<task, futures, hist>>
    /\ UNCHANGED <<site, next_id, args, mainpc, work_queue, log>>

\* Mutant of UpsertCommit: the call flushes and returns without committing.
UpsertCommitNoCommit(w) ==
    /\ pc[w] = "commit"
    /\ store' = ApplyUpdate(store, frame[w])
    /\ Return(w, frame[w].instance)
    /\ UNCHANGED <<site, next_id, args, mainpc, work_queue, log>>

\* upsert, lines 294-296: session.commit() flushes the UPDATE of the changed
\* attributes (update path) and commits; then the call returns.
UpsertCommit(w) ==
    /\ pc[w] = "commit"
    /\ store' = CommitRows(w, ApplyUpdate(store, frame[w]))
    /\ Return(w, frame[w].instance)
    /\ UNCHANGED <<site, next_id, args, mainpc, work_queue, log>>

\* ------------------------------------------- fetch_history, fetch_trades

\* Mutant of TakeTask: the work item stays in the queue after it is taken.
TakeTaskAgain(w) ==
    /\ w <= args.max_workers
    /\ pc[w] = "idle"
    /\ work_queue # <<>>
    /\ LET fi == Head(work_queue) IN
         /\ futures' = [futures EXCEPT ![fi].state = "RUNNING",
                                       ![fi].runs = @ + 1]
         /\ task' = [task EXCEPT ![w] =
                        [NoTask EXCEPT !.fn = futures[fi].fn, !.future = fi]]
    /\ work_queue' = work_queue
    /\ pc' = [pc EXCEPT ![w] = "parse"]
    /\ UNCHANGED <<site, dbvars, frame, args, mainpc, log, hist>>

\* The executor's worker thread w takes the next work item off the queue
\* and runs it (ThreadPoolExecutor: at most max_workers threads, one FIFO
\* queue).
TakeTask(w) ==
    /\ w <= args.max_workers
    /\ pc[w] = "idle"
    /\ work_queue # <<>>
    /\ LET fi == Head(work_queue) IN
         /\ futures' = [futures EXCEPT ![fi].state = "RUNNING",
                                       ![fi].runs = @ + 1]
         /\ task' = [task EXCEPT ![w] =
                        [NoTask EXCEPT !.fn = futures[fi].fn, !.future = fi]]
    /\ work_queue' = Tail(work_queue)
    /\ pc' = [pc EXCEPT ![w] = "parse"]
    /\ UNCHANGED <<site, dbvars, frame, args, mainpc, log, hist>>

\* Mutant of Parsed: the Stock is upserted whatever the parser did; a task
\* whose parser raised goes on with no rows.
ParsedStockAnyway(w, in) ==
    LET fu == futures[task[w].future]
        t == [task[w] EXCEPT !.input = in, !.items = in.rows,
                             !.count = Len(in.rows)] IN
    /\ task' = [task EXCEPT ![w] = t]
    /\ pc' = [pc EXCEPT ![w] = "insert"]
    /\ frame' = [frame EXCEPT ![w] = UpsertFrame("Stock", fu.ticker, NoVals)]
    /\ UNCHANGED <<futures, hist>>

\* Mutant of Parsed: the task goes to its rows without upserting its Stock.
ParsedNoStock(w, in) ==
    LET fu == futures[task[w].future]
        t == [task[w] EXCEPT !.input = in, !.items = in.rows,
                             !.count = Len(in.rows)] IN
    IF in.error # ""
    THEN SetOutcome(w, t,
            [kind |-> "exception", type |-> in.error, count |-> 0,
             ticker |-> IF in.error = "HTTPError" THEN fu.ticker ELSE "",
             page |-> IF in.error = "HTTPError" THEN fu.page ELSE 0])
    ELSE NextItem(w, t)

\* The task has its rows (lines 230, 253): it enters its try block and
\* upserts the Stock of its ticker (lines 233, 256).  An exception of the
\* parser leaves the task before the try block; the text of an HTTPError
\* holds the URL, hence the ticker and the page.
Parsed(w, in) ==
    LET fu == futures[task[w].future]
        t == [task[w] EXCEPT !.input = in, !.items = in.rows,
                             !.count = Len(in.rows)] IN
    IF in.error # ""
    THEN SetOutcome(w, t,
            [kind |-> "exception", type |-> in.error, count |-> 0,
             ticker |-> IF in.error = "HTTPError" THEN fu.ticker ELSE "",
             page |-> IF in.error = "HTTPError" THEN fu.page ELSE 0])
    ELSE /\ task' = [task EXCEPT ![w] = t]
         /\ pc' = [pc EXCEPT ![w] = "insert"]
         /\ frame' = [frame EXCEPT ![w] =
                         UpsertFrame("Stock", fu.ticker, NoVals)]
         /\ UNCHANGED <<futures, hist>>

\* Parser.parse_page (lines 46-50) for the page a task asks for: the DOMs
\* the GET may give.  A fixed site serves one history page and one trades
\* page per page number.
ParsePage(fn, page) ==
    CASE ~site.fixed /\ fn = "fetch_history" -> HistoryDoms
      [] ~site.fixed -> TradesDoms
      [] fn = "fetch_history" -> {site.history}
      [] OTHER -> {site.trades[page]}

\* fetch_history, line 230 to the upsert call of line 233.
FetchHistoryParse(w) ==
    /\ pc[w] = "parse"
    /\ task[w].fn = "fetch_history"
    /\ \E dom \in ParsePage("fetch_history", 0) :
          Parsed(w, ParseHistory(dom))
    /\ UNCHANGED <<site, dbvars, args, mainpc, work_queue, log>>

\* fetch_trades, line 253 to the upsert call of line 256.
FetchTradesParse(w) ==
    /\ pc[w] = "parse"
    /\ task[w].fn = "fetch_trades"
    /\ \E dom \in ParsePage("fetch_trades", futures[task[w].future].page) :
          Parsed(w, ParseTrades(dom, futures[task[w].future].page))
    /\ UNCHANGED <<site, dbvars, args, mainpc, work_queue, log>>

\* The columns of the Trade of line 261 besides its foreign keys: the
\* items of the parsed trade left after the pops of line 258.
TradeVals(item) ==
    [k \in DOMAIN item \ {"insider", "relation"} |-> item[k]]

\* Mutant of AddTrade: a trade the store already holds is not added again.
AddTradeOnce(w) ==
    LET t == task[w]
        item == Head(t.items)
        id == next_id["Trade"]
        key == <<t.stock_id, t.insider_id>>
        held == \E r \in Committed : /\ r.model = "Trade"
                                      /\ r.key = key
                                      /\ r.vals = TradeVals(item) IN
    /\ pc[w] = "add_trade"
    /\ IF item.owner_type \notin OwnerType
       THEN /\ store' = Rollback(w)
            /\ next_id' = next_id
            /\ TaskRaise(w, "StatementError")
       ELSE /\ next_id' = [next_id EXCEPT !["Trade"] = id + 1]
            /\ store' = CommitRows(w, store) \cup
                  (IF held THEN {}
                   ELSE {[model |-> "Trade", id |-> id, key |-> key,
                          vals |-> TradeVals(item), owner |-> 0]})
            /\ NextItem(w, [t EXCEPT
                  !.items = Tail(t.items),
                  !.stored = @ + 1,
                  !.wrote = @ \cup (IF held THEN {}
                                    ELSE {[model |-> "Trade", id |-> id,
                                           path |-> "insert"]})])
    /\ UNCHANGED <<site, args, mainpc, work_queue, log>>

\* fetch_trades, lines 261-262: session.add(models.Trade(...)) and
\* session.commit(), then the next trade of the loop.  The flush raises
\* when owner_type is no name of OwnerType (StatementError) or a foreign
\* key fails (IntegrityError); the handler of lines 264-266 rolls back and
\* re-raises.
AddTrade(w) ==
    LET t == task[w]
        item == Head(t.items)
        id == next_id["Trade"]
        key == <<t.stock_id, t.insider_id>> IN
    /\ pc[w] = "add_trade"
    /\ IF item.owner_type \notin OwnerType
       THEN /\ store' = Rollback(w)
            /\ next_id' = next_id
            /\ TaskRaise(w, "StatementError")
       ELSE /\ next_id' = [next_id EXCEPT !["Trade"] = id + 1]
            /\ IF ~ForeignKeysHold("Trade", key)
               THEN /\ store' = Rollback(w)
                    /\ TaskRaise(w, "IntegrityError")
               ELSE /\ store' = CommitRows(w, store) \cup
                        {[model |-> "Trade", id |-> id, key |-> key,
                          vals |-> TradeVals(item),
                          owner |-> 0]}
                    /\ NextItem(w, [t EXCEPT
                          !.items = Tail(t.items),
                          !.stored = @ + 1,
                          !.wrote = @ \cup {[model |-> "Trade", id |-> id,
                                              path |-> "insert"]}])
    /\ UNCHANGED <<site, args, mainpc, work_queue, log>>

\* Mutant of StoreFails: the handler re-raises without session.rollback().
StoreFailsNoRollback(w) ==
    /\ pc[w] \in {"insert", "query", "commit", "add_trade"}
    /\ store' = store
    /\ TaskRaise(w, "OperationalError")
    /\ UNCHANGED <<site, next_id, args, mainpc, work_queue, log>>

\* The store refuses the statement a running task has sent (the flush of
\* an INSERT, the SELECT, the COMMIT): the call raises an error that upsert
\* does not catch (it catches IntegrityError only, line 287), and the
\* handler of the task (lines 238-240, 264-266) rolls the session back and
\* re-raises.  The refused statement has changed nothing.
StoreFails(w) ==
    /\ pc[w] \in {"insert", "query", "commit", "add_trade"}
    /\ store' = Except(w)
    /\ TaskRaise(w, "OperationalError")
    /\ UNCHANGED <<site, next_id, args, mainpc, work_queue, log>>

\* ------------------------------------------------------- Fetcher.fetch

NewFuture(fn, ticker, page) ==
    [fn |-> fn, ticker |-> ticker, page |-> page, state |-> "PENDING",
     outcome |-> NoOutcome, runs |-> 0, input |-> NoInput, wrote |-> {},
     stored |-> 0]

\* The loops of lines 207-210 after the submission for ticker index i and
\* page (0: the history task): the next page, the next ticker, or
\* as_completed.
Advance(i, page) ==
    IF page < args.max_trades_pages
    THEN [mainpc EXCEPT !.at = "submit", !.i = i, !.page = page + 1]
    ELSE IF i < Len(args.tickers)
         THEN [mainpc EXCEPT !.at = "submit", !.i = i + 1, !.page = 0]
         ELSE [mainpc EXCEPT !.at = "as_completed", !.i = 0, !.page = 0]

\* fetch, line 208: submit(self.fetch_history, ticker).
SubmitHistory ==
    /\ mainpc.at = "submit"
    /\ mainpc.page = 0
    /\ futures' = Append(futures,
          NewFuture("fetch_history", args.tickers[mainpc.i], 0))
    /\ work_queue' = Append(work_queue, Len(futures) + 1)
    /\ mainpc' = Advance(mainpc.i, 0)
    /\ UNCHANGED <<site, dbvars, pc, frame, task, args, log, hist>>

\* Mutant of SubmitTrades: the page of range() is passed as it is.
SubmitTradesZeroBased ==
    /\ mainpc.at = "submit"
    /\ mainpc.page > 0
    /\ futures' = Append(futures,
          NewFuture("fetch_trades", args.tickers[mainpc.i], mainpc.page - 1))
    /\ work_queue' = Append(work_queue, Len(futures) + 1)
    /\ mainpc' = Advance(mainpc.i, mainpc.page)
    /\ UNCHANGED <<site, dbvars, pc, frame, task, args, log, hist>>

\* fetch, lines 209-210: submit(self.fetch_trades, ticker, page + 1) for
\* page in range(max_trades_pages); mainpc.page is page + 1.
SubmitTrades ==
    /\ mainpc.at = "submit"
    /\ mainpc.page > 0
    /\ futures' = Append(futures,
          NewFuture("fetch_trades", args.tickers[mainpc.i], mainpc.page))
    /\ work_queue' = Append(work_queue, Len(futures) + 1)
    /\ mainpc' = Advance(mainpc.i, mainpc.page)
    /\ UNCHANGED <<site, dbvars, pc, frame, task, args, log, hist>>

\* The futures as_completed has yielded so far.
Yielded == {e.future : e \in log}

\* The classes `except Exception` catches: every exception of the tasks.
Exceptions ==
    {"HTTPError", "ParsingError", "ValueError", "IntegrityError",
     "AttributeError", "StatementError", "OperationalError"}

\* Mutant of AsCompleted: future.result() outside any try block.
AsCompletedNoTry ==
    /\ mainpc.at = "as_completed"
    /\ \E fi \in 1..Len(futures) :
         /\ futures[fi].state = "FINISHED"
         /\ fi \notin Yielded
         /\ IF futures[fi].outcome.kind = "exception"
            THEN /\ mainpc' = [mainpc EXCEPT !.at = "raised"]
                 /\ log' = log
            ELSE /\ mainpc' = mainpc
                 /\ log' = log \cup
                      {[future |-> fi, level |-> "info",
                        text |-> futures[fi].outcome]}
    /\ UNCHANGED <<site, dbvars, pc, frame, task, args, futures, work_queue,
                   hist>>

\* fetch, lines 212-218: as_completed yields a finished future; its
\* exception is logged as an error, its result as an info.  An exception
\* that `except Exception` does not catch leaves fetch.
AsCompleted ==
    /\ mainpc.at = "as_completed"
    /\ \E fi \in 1..Len(futures) :
         LET out == futures[fi].outcome IN
         /\ futures[fi].state = "FINISHED"
         /\ fi \notin Yielded
         /\ IF out.kind = "exception" /\ out.type \notin Exceptions
            THEN /\ mainpc' = [mainpc EXCEPT !.at = "raised"]
                 /\ log' = log
            ELSE /\ mainpc' = mainpc
                 /\ log' = log \cup
                      {[future |-> fi,
                        level |-> IF out.kind = "exception"
                                  THEN "error" ELSE "info",
                        text |-> out]}
    /\ UNCHANGED <<site, dbvars, pc, frame, task, args, futures, work_queue,
                   hist>>

\* Mutant of FetchReturn: fetch stops waiting at the first finished future.
FetchReturnFirstCompleted ==
    /\ mainpc.at = "as_completed"
    /\ Yielded # {} \/ futures = <<>>
    /\ mainpc' = [mainpc EXCEPT !.at = "return"]
    /\ UNCHANGED <<site, dbvars, pc, frame, task, args, futures, work_queue, log,
                   hist>>

\* fetch, lines 212 and 220: as_completed is exhausted once it has yielded
\* every future of the list; fetch logs the end of the run and returns.
FetchReturn ==
    /\ mainpc.at = "as_completed"
    /\ Yielded = 1..Len(futures)
    /\ mainpc' = [mainpc EXCEPT !.at = "return"]
    /\ UNCHANGED <<site, dbvars, pc, frame, task, args, futures, work_queue, log,
                   hist>>

\* The caller at the top of fetch(tickers) (line 204): at the first
\* submission, or at as_completed when there is no ticker.  earlier: the
\* committed rows each earlier run of the script has left.
FetchCalled(earlier) ==
    IF args.tickers = <<>>
    THEN [at |-> "as_completed", i |-> 0, page |-> 0, earlier |-> earlier]
    ELSE [at |-> "submit", i |-> 1, page |-> 0, earlier |-> earlier]

\* Fetcher(max_workers, max_trades_pages).fetch(tickers) on an empty store.
InitFetch(maxTickers, maxPages, maxTasks) ==
    /\ store = {}
    /\ next_id = [m \in Models |-> 1]
    /\ pc = [w \in Workers |-> "idle"]
    /\ frame = [w \in Workers |-> NoFrame]
    /\ task = [w \in Workers |-> NoTask]
    /\ args \in {a \in [tickers : SeqsUpTo(TickerNames, maxTickers),
                         max_workers : 1..MaxWorkers,
                         max_trades_pages : 0..maxPages] :
                    Len(a.tickers) * (1 + a.max_trades_pages) <= maxTasks}
    /\ mainpc = FetchCalled(<<>>)
    /\ futures = <<>>
    /\ work_queue = <<>>
    /\ log = {}
    /\ hist = <<>>
    /\ site = AnySite

Init == InitFetch(MaxTickers, MaxPages, MaxTasks)

Next ==
    \/ SubmitHistory
    \/ SubmitTrades
    \/ AsCompleted
    \/ FetchReturn
    \/ \E w \in Workers :
          \/ TakeTask(w)
          \/ FetchHistoryParse(w)
          \/ FetchTradesParse(w)
          \/ UpsertInsert(w)
          \/ UpsertQuery(w)
          \/ UpsertCommit(w)
          \/ AddTrade(w)

Spec == Init /\ [][Next]_vars

\* The thread that called fetch, and worker thread w of the pool.
Main == SubmitHistory \/ SubmitTrades \/ AsCompleted \/ FetchReturn

WorkerStep(w) ==
    \/ TakeTask(w)
    \/ FetchHistoryParse(w)
    \/ FetchTradesParse(w)
    \/ UpsertInsert(w)
    \/ UpsertQuery(w)
    \/ UpsertCommit(w)
    \/ AddTrade(w)

\* Every thread that can take a step is scheduled in the end, and the
\* request or statement it waits for is answered: a thread whose next step
\* stays possible takes it.  Nothing is assumed for a thread whose INSERT
\* waits for another transaction.
Fairness == WF_vars(Main) /\ \A w \in Workers : WF_vars(WorkerStep(w))

SpecLive == Init /\ [][Next]_vars /\ Fairness

\* The submission loop of fetch alone, for longer ticker lists: the loop
\* reads nothing the worker threads write.
InitSubmit ==
    InitFetch(MaxSubmitTickers, MaxSubmitPages,
              MaxSubmitTickers * (1 + MaxSubmitPages))

NextSubmit == SubmitHistory \/ SubmitTrades

SpecSubmit == InitSubmit /\ [][NextSubmit]_vars

\* Runs against a site whose pages are fixed: one ticker on one worker
\* thread.  Either no trades page is asked for and the history page is any
\* page, or the history page cannot be fetched and every trades page asked
\* for is served as one and the same page.
Unreachable ==
    [ok |-> FALSE, div |-> FALSE, table |-> FALSE, tbody |-> FALSE,
     rows |-> <<>>]

InitPage ==
    /\ store = {}
    /\ next_id = [m \in Models |-> 1]
    /\ pc = [w \in Workers |-> "idle"]
    /\ frame = [w \in Workers |-> NoFrame]
    /\ task = [w \in Workers |-> NoTask]
    /\ args \in [tickers : {<<"AAPL">>}, max_workers : {1},
                 max_trades_pages : 0..MaxPages]
    /\ mainpc = FetchCalled(<<>>)
    /\ futures = <<>>
    /\ work_queue = <<>>
    /\ log = {}
    /\ hist = <<>>
    /\ site \in
          IF args.max_trades_pages = 0
          THEN [fixed : {TRUE}, history : HistoryPages(MaxTableRows),
                trades : {<<>>}]
          ELSE {[fixed |-> TRUE, history |-> Unreachable,
                 trades |-> [q \in 1..args.max_trades_pages |-> d]] :
                   d \in TradesPages(MaxTableRows)}

SpecPage == InitPage /\ [][Next]_vars

\* The same runs, on up to MaxWorkers threads, against a store that may
\* refuse any statement.
InitFault ==
    /\ store = {}
    /\ next_id = [m \in Models |-> 1]
    /\ pc = [w \in Workers |-> "idle"]
    /\ frame = [w \in Workers |-> NoFrame]
    /\ task = [w \in Workers |-> NoTask]
    /\ args \in [tickers : {<<"AAPL">>}, max_workers : 1..MaxWorkers,
                 max_trades_pages : 0..MaxPages]
    /\ mainpc = FetchCalled(<<>>)
    /\ futures = <<>>
    /\ work_queue = <<>>
    /\ log = {}
    /\ hist = <<>>
    /\ site \in
          IF args.max_trades_pages = 0
          THEN [fixed : {TRUE}, history : HistoryPages(MaxTableRows),
                trades : {<<>>}]
          ELSE {[fixed |-> TRUE, history |-> Unreachable,
                 trades |-> [q \in 1..args.max_trades_pages |-> d]] :
                   d \in TradesPages(MaxTableRows)}

NextFault == Next \/ \E w \in Workers : StoreFails(w)

SpecFault == InitFault /\ [][NextFault]_vars

\* The script is run again (lines 314-315) after its earlier run has
\* returned: a new Fetcher and a new pool on the store as that run left it.
FetchAgain ==
    /\ mainpc.at = "return"
    /\ Len(mainpc.earlier) + 1 < MaxRuns
    /\ mainpc' = FetchCalled(Append(mainpc.earlier, Committed))
    /\ futures' = <<>>
    /\ work_queue' = <<>>
    /\ log' = {}
    /\ UNCHANGED <<site, dbvars, pc, frame, task, args, hist>>

\* Runs of the script, one after the other, for one ticker and its first
\* trades page, against a site that does not change.
InitRerun ==
    /\ store = {}
    /\ next_id = [m \in Models |-> 1]
    /\ pc = [w \in Workers |-> "idle"]
    /\ frame = [w \in Workers |-> NoFrame]
    /\ task = [w \in Workers |-> NoTask]
    /\ args \in [tickers : {<<"AAPL">>}, max_workers : 1..MaxWorkers,
                 max_trades_pages : {1}]
    /\ mainpc = FetchCalled(<<>>)
    /\ futures = <<>>
    /\ work_queue = <<>>
    /\ log = {}
    /\ hist = <<>>
    /\ site \in [fixed : {TRUE}, history : HistoryDoms,
                 trades : {<<d>> : d \in TradesDoms}]

NextRerun == Next \/ FetchAgain

SpecRerun == InitRerun /\ [][NextRerun]_vars

\* ----------------------------------------------------- bare upsert calls

\* What a caller may pass to upsert: a Stock by ticker, an Insider by name
\* with its relation, a Quote by (stock_id, date) of a resident Stock.
UpsertInputs ==
    {[model |-> "Stock", key |-> t, vals |-> NoVals] : t \in TickerNames}
    \cup {[model |-> "Insider", key |-> n, vals |-> [relation |-> r]] :
             n \in InsiderNames, r \in Relations}
    \cup {[model |-> "Quote", key |-> <<s.id, d>>, vals |-> v] :
             s \in {x \in Committed : x.model = "Stock"}, d \in Dates,
             v \in QuotePayloads}

\* Calls of hist that have not returned yet / that have returned.
Active == {i \in 1..Len(hist) : hist[i].ret = 0}
Returned == {i \in 1..Len(hist) : hist[i].ret > 0}

\* A thread calls Fetcher.upsert(model, data, keys).
DriverCall(w) ==
    /\ pc[w] = "idle"
    /\ Len(hist) < MaxCalls
    /\ \E in \in UpsertInputs :
         /\ hist' = Append(hist, [worker |-> w, model |-> in.model,
                                  key |-> in.key, vals |-> in.vals,
                                  path |-> "", ret |-> 0,
                                  fresh |-> ~\E r \in store :
                                      r.model = in.model /\ r.key = in.key,
                                  prior |-> Returned, active |-> Active])
         /\ frame' = [frame EXCEPT ![w] =
                         UpsertFrame(in.model, in.key, in.vals)]
    /\ pc' = [pc EXCEPT ![w] = "insert"]
    /\ task' = [task EXCEPT ![w] = [NoTask EXCEPT !.fn = "driver",
                                                  !.future = Len(hist) + 1]]
    /\ UNCHANGED <<site, dbvars, poolvars>>

\* The store an earlier run has left: the Stock of one ticker and its Quote
\* of one date, every price field 1.
ResidentQuote == [f \in QuoteFields |-> 1]

InitUpsert ==
    /\ store = {[model |-> "Stock", id |-> 1, key |-> "AAPL", vals |-> NoVals,
                 owner |-> 0],
                [model |-> "Quote", id |-> 1, key |-> <<1, 1>>,
                 vals |-> ResidentQuote, owner |-> 0]}
    /\ next_id = [m \in Models |-> IF m \in {"Stock", "Quote"} THEN 2 ELSE 1]
    /\ pc = [w \in Workers |-> "idle"]
    /\ frame = [w \in Workers |-> NoFrame]
    /\ task = [w \in Workers |-> NoTask]
    /\ args = [tickers |-> <<>>, max_workers |-> MaxWorkers,
               max_trades_pages |-> 0]
    /\ mainpc = "done"
    /\ futures = <<>>
    /\ work_queue = <<>>
    /\ log = {}
    /\ hist = <<>>
    /\ site = AnySite

NextUpsert ==
    \E w \in Workers :
        \/ DriverCall(w)
        \/ UpsertInsert(w)
        \/ UpsertQuery(w)
        \/ UpsertCommit(w)

SpecUpsert == InitUpsert /\ [][NextUpsert]_vars

\* -------------------------------------------------- claims about upsert

\* Calls i and j of hist are upserts of the same model and natural key.
SameKey(i, j) == hist[i].model = hist[j].model /\ hist[i].key = hist[j].key

\* The calls of hist on the natural key of call i.
OnKey(i) == {k \in 1..Len(hist) : SameKey(i, k)}

\* Call j started while call i was running, on a key with no row yet when i
\* started; both have returned and no other call was made on that key.
Raced(i, j) ==
    /\ i # j
    /\ SameKey(i, j)
    /\ hist[i].fresh
    /\ i \in hist[j].active
    /\ OnKey(i) = {i, j}
    /\ {i, j} \subseteq Returned

\* C1: when two workers race to upsert the same new natural key, then once
\* both calls have returned the store holds exactly one record of that key,
\* one call inserted and the other updated, and the record's non-key fields
\* are those of the call that took the update path.
C1_RaceOneRecordLoserWins ==
    \A i, j \in 1..Len(hist) :
        Raced(i, j) =>
            /\ Cardinality({r \in store : r.model = hist[i].model
                                           /\ r.key = hist[i].key}) = 1
            /\ {hist[i].path, hist[j].path} = {"insert", "update"}
            /\ \A r \in Lookup(hist[i].model, hist[i].key) :
                   \A k \in {i, j} :
                       hist[k].path = "update" => r.vals = hist[k].vals

\* Witness of C1: a finished race on an Insider name with two different
\* relations.
C1_Witness ==
    \E i, j \in 1..Len(hist) :
        /\ Raced(i, j)
        /\ hist[i].model = "Insider"
        /\ hist[i].vals # hist[j].vals

\* Call i returned before call j started, they are the only calls on their
\* natural key, their payloads differ and both have returned.
Sequential(i, j) ==
    /\ SameKey(i, j)
    /\ i \in hist[j].prior
    /\ OnKey(i) = {i, j}
    /\ hist[i].vals # hist[j].vals
    /\ j \in Returned

\* C2: two sequential upserts of the same natural key with different
\* payloads leave exactly one record of that key, both return the same id,
\* and the record's non-key fields are those of the second payload.
C2_SequentialLastWriteWins ==
    \A i, j \in 1..Len(hist) :
        Sequential(i, j) =>
            /\ Cardinality({r \in store : r.model = hist[i].model
                                           /\ r.key = hist[i].key}) = 1
            /\ hist[i].ret = hist[j].ret
            /\ \A r \in Lookup(hist[i].model, hist[i].key) :
                   r.id = hist[j].ret /\ r.vals = hist[j].vals

\* Witness of C2: two sequential upserts of one Quote key have returned.
C2_Witness ==
    \E i, j \in 1..Len(hist) :
        Sequential(i, j) /\ hist[i].model = "Quote"

\* The payloads upserted so far for a natural key: those of the calls
\* issued, and the one the resident Quote was left with.
IssuedVals(model, key) ==
    {hist[i].vals : i \in {k \in 1..Len(hist) :
                              hist[k].model = model /\ hist[k].key = key}}
    \cup (IF model = "Quote" /\ key = <<1, 1>> THEN {ResidentQuote} ELSE {})

\* C3: in every committed state the fields of a resident record all come
\* from one single payload upserted for its natural key; no record mixes
\* fields of two payloads.
C3_NoMixedRecord ==
    \A r \in Committed :
        r.model \in {"Quote", "Insider"} =>
            r.vals \in IssuedVals(r.model, r.key)

\* C4: a record upsert has returned is committed in the store, and an upsert
\* of the same natural key that starts after that return takes the update
\* path and returns the same id.
C4_ReturnedIsCommitted ==
    \A i \in Returned :
        /\ \E r \in Committed : /\ r.model = hist[i].model
                                 /\ r.key = hist[i].key
                                 /\ r.id = hist[i].ret
        /\ \A j \in 1..Len(hist) :
              (SameKey(i, j) /\ i \in hist[j].prior) =>
                  /\ hist[j].path # "insert"
                  /\ hist[j].ret \in {0, hist[i].ret}

\* Witness of C4: an upsert that started after another one of the same key
\* had returned has returned too, in another worker.
C4_Witness ==
    \E i, j \in Returned :
        /\ SameKey(i, j)
        /\ i \in hist[j].prior
        /\ hist[i].worker # hist[j].worker
        /\ hist[j].path = "update"

\* --------------------------------------------------- claims about fetch

Finished == {fi \in 1..Len(futures) : futures[fi].state = "FINISHED"}
Failed == {fi \in Finished : futures[fi].outcome.kind = "exception"}
Succeeded == {fi \in Finished : futures[fi].outcome.kind = "result"}

\* C5: the uniqueness conflict of upsert's INSERT never reaches the caller:
\* no task whose page was parsed ends with IntegrityError or with the
\* AttributeError of a failed lookup, and an upsert that met the conflict
\* holds the resident record of its natural key.
C5_ConflictNeverSurfaces ==
    /\ \A fi \in 1..Len(futures) :
          futures[fi].input.error = "" =>
              futures[fi].outcome.type \notin
                  {"IntegrityError", "AttributeError"}
    /\ \A w \in Workers :
          (pc[w] = "commit" /\ frame[w].path = "update") =>
              \E r \in Lookup(frame[w].model, frame[w].key) :
                  r.id = frame[w].instance

\* Witness of C5: a task whose Quote upsert met the conflict has ended with
\* a result.
C5_Witness ==
    \E fi \in Succeeded :
        \E x \in futures[fi].wrote : x.model = "Quote" /\ x.path = "update"

\* The futures submitted for a function, a ticker and a page.
Submitted(fn, ticker, page) ==
    {fi \in 1..Len(futures) : /\ futures[fi].fn = fn
                                /\ futures[fi].ticker = ticker
                                /\ futures[fi].page = page}

\* How many times a ticker occurs in the list handed to fetch.
Occurrences(ticker) ==
    Cardinality({i \in 1..Len(args.tickers) : args.tickers[i] = ticker})

\* C6: once the submission loop is over, fetch has submitted T * (1 + P)
\* tasks: for every occurrence of a ticker one fetch_history task and one
\* fetch_trades task for each page 1..P.
C6_TasksSubmitted ==
    mainpc.at # "submit" =>
        /\ Len(futures) = Len(args.tickers) * (1 + args.max_trades_pages)
        /\ \A t \in TickerNames :
              /\ Cardinality(Submitted("fetch_history", t, 0)) = Occurrences(t)
              /\ \A p \in 1..args.max_trades_pages :
                    Cardinality(Submitted("fetch_trades", t, p)) = Occurrences(t)

\* Witness of C6: three tickers and two pages, nine tasks submitted.
C6_Witness ==
    /\ mainpc.at # "submit"
    /\ Len(args.tickers) = 3
    /\ args.max_trades_pages = 2
    /\ Len(futures) = 9

\* C7: when fetch returns, every future it submitted is finished.
C7_Barrier ==
    mainpc.at = "return" => Finished = 1..Len(futures)

\* Witness of C7: fetch has returned from a run of three tasks on two
\* workers in which the task submitted last finished with a result and the
\* first one with an exception.
C7_Witness ==
    /\ mainpc.at = "return"
    /\ args.max_workers = 2
    /\ Len(futures) = 3
    /\ 1 \in Failed
    /\ 3 \in Succeeded

\* The trades of a parsed page that fetch_trades stores: those before the
\* first one the store refuses.
RECURSIVE Stored(_)
Stored(rows) ==
    IF rows = <<>> \/ Head(rows).owner_type \notin OwnerType
    THEN 0
    ELSE 1 + Stored(Tail(rows))

\* The outcome of a finished task as its own page alone decides it.
OwnOutcome(fu) ==
    CASE fu.input.error = "HTTPError" ->
            [kind |-> "exception", type |-> "HTTPError", count |-> 0,
             ticker |-> fu.ticker, page |-> fu.page]
      [] fu.input.error # "" ->
            [kind |-> "exception", type |-> fu.input.error, count |-> 0,
             ticker |-> "", page |-> 0]
      [] fu.fn = "fetch_trades" /\ Stored(fu.input.rows) < Len(fu.input.rows) ->
            [kind |-> "exception", type |-> "StatementError", count |-> 0,
             ticker |-> "", page |-> 0]
      [] OTHER ->
            [kind |-> "result", type |-> "", count |-> Len(fu.input.rows),
             ticker |-> fu.ticker, page |-> fu.page]

\* The finished tasks of a ticker.
TasksOf(ticker) == {fi \in Finished : futures[fi].ticker = ticker}

RECURSIVE StoredBy(_)
StoredBy(fis) ==
    IF fis = {}
    THEN 0
    ELSE LET fi == CHOOSE x \in fis : TRUE IN
         (IF futures[fi].fn = "fetch_trades"
          THEN Stored(futures[fi].input.rows) ELSE 0)
         + StoredBy(fis \ {fi})

\* The dates of the history items the tasks of a ticker have parsed.
DatesOf(ticker) ==
    UNION {{futures[fi].input.rows[k].date :
               k \in 1..Len(futures[fi].input.rows)} :
           fi \in {x \in TasksOf(ticker) : futures[x].fn = "fetch_history"}}

\* The committed rows of a model that belong to a ticker's Stock.
RowsOf(model, ticker) ==
    {r \in Committed :
        /\ r.model = model
        /\ \E s \in Lookup("Stock", ticker) : r.key[1] = s.id}

\* C8: task failures are isolated.  No future is dropped from the queue
\* unrun; the outcome of every finished task is the one its own page
\* decides, whatever the other tasks met; and when fetch returns, the rows
\* of each ticker (its Stock, its Quotes by date, the number of its Trades)
\* are those the pages of that ticker's own tasks decide.
C8_FailuresIsolated ==
    /\ \A fi \in 1..Len(futures) :
          futures[fi].state = "PENDING" =>
              \E k \in 1..Len(work_queue) : work_queue[k] = fi
    /\ \A fi \in Finished : futures[fi].outcome = OwnOutcome(futures[fi])
    /\ mainpc.at = "return" =>
          \A t \in TickerNames :
              /\ Cardinality(Lookup("Stock", t)) =
                    IF \E fi \in TasksOf(t) : futures[fi].input.error = ""
                    THEN 1 ELSE 0
              /\ {r.key[2] : r \in RowsOf("Quote", t)} = DatesOf(t)
              /\ Cardinality(RowsOf("Quote", t)) = Cardinality(DatesOf(t))
              /\ Cardinality(RowsOf("Trade", t)) = StoredBy(TasksOf(t))

\* Witness of C8: on a single worker thread the first task has failed and
\* a later task of another ticker has ended with a result and its Quote
\* committed.
C8_Witness ==
    /\ mainpc.at = "return"
    /\ args.max_workers = 1
    /\ 1 \in Failed
    /\ \E fi \in Succeeded :
          /\ futures[fi].ticker # futures[1].ticker
          /\ futures[fi].outcome.count = 1
          /\ RowsOf("Quote", futures[fi].ticker) # {}

\* C9: fetch never re-raises the failure of a task: it is never left by an
\* exception, and every failed future it has seen is in the log as an
\* error entry carrying the exception.
C9_NeverReraises ==
    /\ mainpc.at # "raised"
    /\ \A fi \in Failed \cap Yielded :
          [future |-> fi, level |-> "error", text |-> futures[fi].outcome]
              \in log
    /\ mainpc.at = "return" => Failed \subseteq Yielded

\* Witness of C9: fetch has returned from a run in which every one of
\* three tasks failed.
C9_Witness ==
    /\ mainpc.at = "return"
    /\ Len(futures) = 3
    /\ Failed = 1..3

\* C10: a fetch_trades task whose page lies beyond the page count of the
\* source has no trade to store: it never reaches the Insider upsert or
\* the Trade insert, writes nothing but its Stock, and ends with the
\* result of zero items.
C10_BeyondLastPage ==
    /\ \A w \in Workers :
          task[w].input.beyond =>
              /\ task[w].items = <<>>
              /\ pc[w] # "add_trade"
              /\ frame[w].model \in {"", "Stock"}
    /\ \A fi \in Finished :
          futures[fi].input.beyond =>
              /\ futures[fi].outcome.kind = "result"
              /\ futures[fi].outcome.count = 0
              /\ \A x \in futures[fi].wrote : x.model = "Stock"

\* Witness of C10: the task of page 2 has ended on a source that has one
\* page.
C10_Witness ==
    \E fi \in Succeeded :
        /\ futures[fi].input.beyond
        /\ futures[fi].page = 2
        /\ futures[fi].outcome.count = 0

\* The ids of the committed records of a model.
Ids(model) == {r.id : r \in {x \in Committed : x.model = model}}

\* C15: upserts happen in dependency order.  A task reaches the upsert of a
\* Quote with the id of a committed Stock, and the insert of a Trade with
\* the ids of a committed Stock and a committed Insider; and in every state
\* every Quote and every Trade of the store refers to committed records.
C15_DependencyOrder ==
    /\ \A w \in Workers :
          /\ frame[w].model = "Quote" =>
                /\ task[w].stock_id \in Ids("Stock")
                /\ frame[w].key[1] = task[w].stock_id
          /\ (frame[w].model = "Insider" \/ pc[w] = "add_trade") =>
                task[w].stock_id \in Ids("Stock")
          /\ pc[w] = "add_trade" => task[w].insider_id \in Ids("Insider")
    /\ \A r \in store :
          /\ r.model \in {"Quote", "Trade"} => r.key[1] \in Ids("Stock")
          /\ r.model = "Trade" => r.key[2] \in Ids("Insider")

\* Witness of C15: with two worker threads, a Quote and a Trade are
\* committed.
C15_Witness ==
    /\ args.max_workers = 2
    /\ \E r \in Committed : r.model = "Quote"
    /\ \E r \in Committed : r.model = "Trade"

\* No two committed records of a model with a natural key share their key.
UniqueKeys ==
    \A r, q \in Committed :
        (r.model \in UniqueModels /\ r.model = q.model /\ r.key = q.key) =>
            r = q

\* A step keeps every committed Stock and Insider, with its id and key.
KeepsRecords ==
    \A r \in Committed :
        r.model \in {"Stock", "Insider"} =>
            \E q \in Committed' :
                q.model = r.model /\ q.id = r.id /\ q.key = r.key

\* C16: in every reachable state there is at most one Stock per ticker, one
\* Insider per name and one Quote per (stock_id, date), and no step deletes
\* a Stock or an Insider.
C16_UniqueAndNeverDeleted == []UniqueKeys /\ [][KeepsRecords]_vars

\* Witness of C16: fetch has returned from a run in which two tasks upserted
\* the same Stock and two tasks the same Insider.
C16_Witness ==
    /\ mainpc.at = "return"
    /\ \E fi, fj \in Succeeded :
          /\ fi # fj
          /\ \E x \in futures[fi].wrote, y \in futures[fj].wrote :
                x.model = "Stock" /\ y.model = "Stock" /\ x.id = y.id
          /\ \E x \in futures[fi].wrote, y \in futures[fj].wrote :
                x.model = "Insider" /\ y.model = "Insider" /\ x.id = y.id

\* The rows worker w's session has inserted and not yet committed.
Pending(w) == {r \in store : r.owner = w}

\* Every uncommitted row belongs to the session of a thread that is running
\* a task: a thread that has ended its task has left nothing pending in the
\* session its next task will use.
PendingIsOwned ==
    \A r \in store : r.owner # 0 => pc[r.owner] # "idle"

\* A step leaves the pending rows of every thread that did not take it as
\* they are: it neither commits nor discards them.
OthersUntouched ==
    \A w \in Workers :
        (pc'[w] = pc[w] /\ frame'[w] = frame[w] /\ task'[w] = task[w]) =>
            {r \in store' : r.owner = w} = Pending(w)

\* C18: tasks running at the same time never share a session: every pending
\* row belongs to the one running thread that inserted it, and the flush,
\* commit or rollback of one thread never commits or discards what another
\* thread has pending.
C18_SessionsIsolated == []PendingIsOwned /\ [][OthersUntouched]_vars

\* Witness of C18: a thread has committed records of its running task while
\* the other thread's insert is still pending.
C18_Witness ==
    \E w, v \in Workers :
        /\ w # v
        /\ Pending(w) # {}
        /\ task[v].wrote # {}
        /\ pc[v] = "insert"

\* C19: within one call of fetch every submitted task is started exactly
\* once: a future is in the queue once and unstarted, or it has been
\* started once and is no longer in the queue; a finished future, failed or
\* not, is never started again.
C19_StartedOnce ==
    \A fi \in 1..Len(futures) :
        LET queued == {k \in 1..Len(work_queue) : work_queue[k] = fi}
            running == {w \in Workers : task[w].future = fi} IN
        CASE futures[fi].state = "PENDING" ->
                /\ futures[fi].runs = 0
                /\ Cardinality(queued) = 1
                /\ running = {}
          [] futures[fi].state = "RUNNING" ->
                /\ futures[fi].runs = 1
                /\ queued = {}
                /\ Cardinality(running) = 1
          [] OTHER ->
                /\ futures[fi].runs = 1
                /\ queued = {}
                /\ running = {}

\* Witness of C19: fetch has returned from a run of three tasks, the first
\* of which failed.
C19_Witness ==
    /\ mainpc.at = "return"
    /\ Len(futures) = 3
    /\ 1 \in Failed
    /\ 2 \in Succeeded
    /\ \A fi \in 1..3 : futures[fi].runs = 1

\* C20: the error entry fetch logs for a failed task names the task: its
\* text holds the task's ticker and, for a fetch_trades task, its page.
C20_ErrorNamesTask ==
    \A e \in log :
        e.level = "error" =>
            /\ e.text.ticker = futures[e.future].ticker
            /\ futures[e.future].fn = "fetch_trades" =>
                  e.text.page = futures[e.future].page

\* The Trade records a finished task has stored.
TradesOf(fi) ==
    {r \in Committed :
        /\ r.model = "Trade"
        /\ \E x \in futures[fi].wrote : x.model = "Trade" /\ x.id = r.id}

\* How many records of a model a set of rows holds, and how many Trades
\* with the foreign keys and the columns of Trade r.
CountOf(rows, model) == Cardinality({x \in rows : x.model = model})
Copies(rows, r) ==
    Cardinality({x \in rows : x.model = "Trade" /\ x.key = r.key
                                /\ x.vals = r.vals})

\* C17: trades are appended and never deduplicated.  A fetch_trades task
\* that has ended with a result has added one Trade per parsed row, each a
\* record no earlier run left; and when run k of the script returns, on a
\* site that has not changed, the store holds k times the copies of each
\* Trade the first run left and as many Stocks, Insiders and Quotes as
\* after the first run.
C17_TradesAppendOnly ==
    /\ \A fi \in Succeeded :
          futures[fi].fn = "fetch_trades" =>
              /\ Cardinality(TradesOf(fi)) = Len(futures[fi].input.rows)
              /\ \A r \in TradesOf(fi) :
                    \A k \in 1..Len(mainpc.earlier) :
                        \A x \in mainpc.earlier[k] :
                            x.model = "Trade" => x.id # r.id
    /\ (mainpc.at = "return" /\ mainpc.earlier # <<>>) =>
          LET k == Len(mainpc.earlier) + 1
              first == mainpc.earlier[1] IN
          /\ \A m \in UniqueModels :
                CountOf(Committed, m) = CountOf(first, m)
          /\ CountOf(Committed, "Trade") = k * CountOf(first, "Trade")
          /\ \A r \in Committed :
                r.model = "Trade" =>
                    Copies(Committed, r) = k * Copies(first, r)

\* Witness of C17: the second run has returned and the store holds two
\* copies of a Trade, one Insider and one Quote.
C17_Witness ==
    /\ mainpc.at = "return"
    /\ Len(mainpc.earlier) = 1
    /\ \E r \in Committed : r.model = "Trade" /\ Copies(Committed, r) = 2
    /\ CountOf(Committed, "Insider") = 1
    /\ CountOf(Committed, "Quote") = 1
    /\ Succeeded = {1, 2}

\* The futures of a ticker whose task has got its rows from the parser: the
\* finished ones, and those a thread is running past its parse.
ParsedFor(ticker) ==
    {fi \in Finished : futures[fi].ticker = ticker
                       /\ futures[fi].input.error = ""}
    \cup {task[w].future : w \in {v \in Workers :
             /\ pc[v] \notin {"idle", "parse"}
             /\ futures[task[v].future].ticker = ticker}}

\* A finished task whose parser raised has stored nothing, a finished task
\* whose parser gave no row has upserted the Stock of its ticker, and a
\* ticker has a Stock only when a task of it has got its rows.
ParseFailureStoresNothing ==
    /\ \A fi \in Finished :
          /\ futures[fi].input.error # "" =>
                /\ futures[fi].wrote = {}
                /\ futures[fi].outcome.kind = "exception"
          /\ (futures[fi].input.error = "" /\ futures[fi].input.rows = <<>>) =>
                /\ futures[fi].outcome.kind = "result"
                /\ \E x \in futures[fi].wrote :
                      /\ x.model = "Stock"
                      /\ \E r \in Lookup("Stock", futures[fi].ticker) :
                            r.id = x.id
    /\ \A t \in TickerNames :
          (\E r \in store : r.model = "Stock" /\ r.key = t) =>
              ParsedFor(t) # {}

\* The step in which a task ends at its parse leaves the store and its
\* sequences as they are.
ParseFailureKeepsStore ==
    \A w \in Workers :
        (pc[w] = "parse" /\ pc'[w] = "idle") =>
            (store' = store /\ next_id' = next_id)

\* C21: a task that fails while fetching or parsing its page performs no
\* store operation: it leaves the store unchanged and creates no Stock for
\* its ticker; a task that parses with zero rows still upserts its Stock.
C21_ParseFailureNoStoreOp ==
    []ParseFailureStoresNothing /\ [][ParseFailureKeepsStore]_vars

\* Witness of C21: fetch has returned from a run in which the only task of
\* one ticker failed with ParsingError, leaving no Stock of it, and a task
\* of another ticker parsed zero rows and left its Stock.
C21_Witness ==
    /\ mainpc.at = "return"
    /\ \E fi \in Failed, fj \in Succeeded :
          /\ futures[fi].input.error = "ParsingError"
          /\ Lookup("Stock", futures[fi].ticker) = {}
          /\ futures[fj].input.rows = <<>>
          /\ futures[fj].ticker # futures[fi].ticker
          /\ Lookup("Stock", futures[fj].ticker) # {}

\* What a thread's session holds uncommitted is the one row the upsert call
\* it is in has inserted and not yet committed: between two store
\* operations, at the parse of its next task and between tasks the session
\* holds nothing.
SessionClean ==
    \A w \in Workers :
        /\ pc[w] \in {"idle", "parse", "insert", "query", "add_trade"} =>
              Pending(w) = {}
        /\ \A r \in Pending(w) :
              /\ pc[w] = "commit"
              /\ frame[w].path = "insert"
              /\ r.model = frame[w].model
              /\ r.id = frame[w].instance
              /\ r.key = frame[w].key

\* The step that ends a task, with its result or with an exception, leaves
\* nothing of its thread's session uncommitted, and the step that starts a
\* task leaves the store as it is.
TaskEndsClean ==
    \A w \in Workers :
        /\ (pc[w] # "idle" /\ pc'[w] = "idle") =>
              {r \in store' : r.owner = w} = {}
        /\ (pc[w] = "idle" /\ pc'[w] # "idle") => store' = store

\* C22: whenever a task ends, with success or with a failure at any step
\* (parse, insert, conflict fallback, commit), the session of its thread
\* holds no uncommitted change, so the next task of the thread starts from
\* a clean session and commits or rolls back nothing an earlier task left.
C22_SessionCleanAtTaskEnd == []SessionClean /\ [][TaskEndsClean]_vars

\* Witness of C22: a thread is at the parse of its next task with nothing
\* pending, after a task whose Stock was inserted (its id is used up) and
\* never committed: the store refused the commit and the handler rolled
\* the row back.
C22_Witness ==
    /\ \E w \in Workers : pc[w] = "parse" /\ Pending(w) = {}
    /\ \A w \in Workers : pc[w] \in {"idle", "parse"}
    /\ next_id["Stock"] = 2
    /\ store = {}
    /\ \E fi \in Failed :
          /\ futures[fi].outcome.type = "OperationalError"
          /\ futures[fi].input.error = ""

\* The finished tasks that failed at a store step: the parser gave them
\* their rows.
StoreFailed == {fi \in Failed : futures[fi].input.error = ""}

\* The ids of the records of a model a task has written.
WroteIds(fi, model) ==
    {x.id : x \in {y \in futures[fi].wrote : y.model = model}}

\* The row of rows[1..n] that was the last to write the Quote of a date
\* (0 when there is none).
LastOf(rows, n, date) ==
    LET js == {j \in 1..n : rows[j].date = date} IN
    IF js = {} THEN 0 ELSE CHOOSE j \in js : \A i \in js : i <= j

\* A task that failed at a store step after `stored` rows: what it wrote
\* is committed and still there, the failing row exists, and the store
\* holds of the task's rows those before the failing one and no other.
PartialWorkStays ==
    \A fi \in StoreFailed :
        LET f == futures[fi]
            rows == f.input.rows
            n == f.stored IN
        /\ \A x \in f.wrote :
              \E r \in Committed : r.model = x.model /\ r.id = x.id
        /\ IF WroteIds(fi, "Stock") = {}
           THEN n = 0 /\ f.wrote = {}
           ELSE /\ n < Len(rows)
                /\ \E r \in Lookup("Stock", f.ticker) :
                      WroteIds(fi, "Stock") = {r.id}
        /\ f.fn = "fetch_trades" =>
              /\ Cardinality(TradesOf(fi)) = n
              /\ Cardinality(WroteIds(fi, "Trade")) = n
              /\ \A j \in 1..n :
                    /\ \E r \in TradesOf(fi) : r.vals = TradeVals(rows[j])
                    /\ Lookup("Insider", rows[j].insider) # {}
        /\ f.fn = "fetch_history" =>
              /\ WroteIds(fi, "Trade") = {}
              /\ Cardinality({x \in f.wrote : x.model = "Quote"}) <= n
              /\ \A j \in 1..n :
                    \E q \in Committed :
                        /\ q.model = "Quote"
                        /\ q.id \in WroteIds(fi, "Quote")
                        /\ q.key[2] = rows[j].date
              /\ \A q \in Committed :
                    (q.model = "Quote" /\ q.id \in WroteIds(fi, "Quote")) =>
                        /\ LastOf(rows, n, q.key[2]) > 0
                        /\ q.vals = rows[LastOf(rows, n, q.key[2])].vals

\* The step in which a task ends with an exception takes from the store
\* the rows its thread's session had not committed and nothing else.
FailureDiscardsPendingOnly ==
    \A w \in Workers :
        (/\ pc[w] # "idle"
         /\ pc'[w] = "idle"
         /\ task[w].fn # "driver"
         /\ futures'[task[w].future].outcome.kind = "exception") =>
            store' = store \ Pending(w)

\* C23: if a history or trades task fails at the store step of its k-th
\* row, the Stock and the records committed for rows 1..k-1 stay in the
\* store; only the uncommitted work of the failing step is rolled back,
\* and the rows after k are never written.
C23_PartialWorkStays ==
    []PartialWorkStays /\ [][FailureDiscardsPendingOnly]_vars

\* Witness of C23: of two trades tasks on the same two-row page, one
\* failed at its first row, after its Stock was committed and the Insider
\* with id 1 was inserted and rolled back; the other failed at its second
\* row and left its first Trade and the Insider with id 2.
C23_Witness ==
    \E fi, fj \in StoreFailed :
        /\ futures[fi].fn = "fetch_trades"
        /\ futures[fi].stored = 0
        /\ WroteIds(fi, "Stock") # {}
        /\ futures[fj].fn = "fetch_trades"
        /\ futures[fj].stored = 1
        /\ Len(futures[fj].input.rows) = 2
        /\ futures[fj].outcome.type = "OperationalError"
        /\ Cardinality(TradesOf(fj)) = 1
        /\ WroteIds(fj, "Insider") = {2}
        /\ \A r \in store : r.model = "Insider" => r.id = 2

\* Thread w waits with its INSERT for a row thread v has not committed.
WaitsFor(w, v) ==
    /\ pc[w] = "insert"
    /\ \E r \in Pending(v) : r.model = frame[w].model /\ r.key = frame[w].key

\* A thread that waits holds no uncommitted row another could wait for, so
\* no threads wait on each other; and until fetch has returned some thread
\* can take a step.
NoDeadlock ==
    /\ \A w, v \in Workers : WaitsFor(w, v) => Pending(w) = {}
    /\ mainpc.at # "return" => ENABLED Next

\* C24: when every request and every store operation of a running task
\* completes and the threads are scheduled fairly, fetch returns, also when
\* the tasks outnumber the threads and when threads wait for each other's
\* uncommitted insert of the same natural key; no reachable state has
\* threads waiting on each other forever.
C24_FetchReturns == []NoDeadlock /\ <>(mainpc.at = "return")

\* Witness of C24: a thread waits with its INSERT for the uncommitted row
\* of the other thread while a submitted task is still in the queue.
C24_Witness ==
    /\ work_queue # <<>>
    /\ Len(futures) > args.max_workers
    /\ \E w, v \in Workers : w # v /\ WaitsFor(w, v) /\ pc[v] = "commit"

\* -------------------------------------------------- claims about Parser

\* The page a fixed site has served to the task of a future.
PageOf(fi) ==
    IF futures[fi].fn = "fetch_history"
    THEN site.history
    ELSE site.trades[futures[fi].page]

HistoryTasks == {fi \in Finished : futures[fi].fn = "fetch_history"}
TradesTasks == {fi \in Finished : futures[fi].fn = "fetch_trades"}

\* The last-page link is absent, or it is there and its page number is
\* missing or is no integer.
NoPageNumber(dom) ==
    \/ ~dom.link
    \/ dom.href_page = None
    \/ ToInt(dom.href_page[1]) = None

\* C11: for a fetched trades page whose last-page link is absent, or present
\* with its page number missing or not an integer, parse_trades_page_count
\* returns 1 and does not raise, and the task of that page gets past the
\* page count: with the table there, its parse ends without an error.
C11_PageCountDefaultsToOne ==
    \A fi \in TradesTasks :
        LET dom == PageOf(fi) IN
        (dom.ok /\ NoPageNumber(dom)) =>
            /\ ParseTradesPageCount(dom) = [error |-> "", count |-> 1]
            /\ (futures[fi].page = 1 /\ dom.div /\ dom.table) =>
                   futures[fi].input.error = ""

\* The page count of a trades page can be read and the requested page lies
\* within it, so that parse_trades needs the table.
NeedsTable(fi) ==
    LET page_count == ParseTradesPageCount(PageOf(fi)) IN
    /\ PageOf(fi).ok
    /\ page_count.error = ""
    /\ futures[fi].page <= page_count.count

\* C12: when the history page lacks its container div, the table or the
\* table body, or a trades page whose table is needed lacks its container
\* div or the table, the parse ends with ParsingError and nothing else.
C12_MissingElementIsParsingError ==
    /\ \A fi \in HistoryTasks :
          LET dom == PageOf(fi) IN
          (dom.ok /\ ~(dom.div /\ dom.table /\ dom.tbody)) =>
              futures[fi].input.error = "ParsingError"
    /\ \A fi \in TradesTasks :
          LET dom == PageOf(fi) IN
          (NeedsTable(fi) /\ ~(dom.div /\ dom.table)) =>
              futures[fi].input.error = "ParsingError"

\* A history row has six cells and its date and its five numbers convert.
ConvertsHistory(row) ==
    /\ Len(row) = 6
    /\ ParseDate(row[1]) # None
    /\ \A k \in 2..6 : Float(StripCommas(row[k])) # None

\* A trade row has eight cells and its date, its numbers of shares and its
\* last price, when the cell is not empty, convert.
ConvertsTrade(row) ==
    /\ Len(row) = 8
    /\ ParseDate(row[3]) # None
    /\ Float(StripCommas(row[6])) # None
    /\ row[7] = "" \/ Float(row[7]) # None
    /\ Float(StripCommas(row[8])) # None

EmptyLastPrice(kept) == {k \in 1..Len(kept) : kept[k][7] = ""}

\* C14: a trade row of eight cells that convert and whose last-price cell is
\* empty is in the result of parse_trades, at its place, with last_price
\* None (neither skipped, nor zero, nor a failure of the parse), and a task
\* that has stored its rows has stored a Trade with a null last_price for
\* each of them.
C14_EmptyLastPriceIsNull ==
    \A fi \in TradesTasks :
        LET kept == SelectSeq(PageOf(fi).rows, ConvertsTrade) IN
        (NeedsTable(fi) /\ PageOf(fi).table) =>
            /\ futures[fi].input.error = ""
            /\ Len(futures[fi].input.rows) = Len(kept)
            /\ \A k \in EmptyLastPrice(kept) :
                  futures[fi].input.rows[k].last_price = None
            /\ fi \in Succeeded =>
                  Cardinality({r \in TradesOf(fi) : r.vals.last_price = None})
                      = Cardinality(EmptyLastPrice(kept))

\* Witness of C14: a task has stored the Trades of a table of two rows, the
\* first with a last price and the second without.
C14_Witness ==
    \E fi \in TradesTasks \cap Succeeded :
        /\ Len(PageOf(fi).rows) = 2
        /\ EmptyLastPrice(SelectSeq(PageOf(fi).rows, ConvertsTrade)) = {2}
        /\ \E r \in TradesOf(fi) : r.vals.last_price = None
        /\ \E r \in TradesOf(fi) : r.vals.last_price = Some(1)

====
